---- MODULE Spec2Model ----
(***************************************************************************)
(* A model of scripts/enhance.py: the command-line entry point, the        *)
(* ChainNet loader, the sense-key map, and the loop of enhance_wordnet     *)
(* that adds forward and reverse sense relations to a wordnet editor and   *)
(* exports the result.  The wn library, the wn_edit editor and the file    *)
(* system are the environment: what they return is chosen                  *)
(* nondeterministically from small sets at the call that consults them.    *)
(***************************************************************************)
EXTENDS Integers, Sequences, FiniteSets, TLC

\* ------------------------------------------------------------------------
\* Bounds of the model
\* ------------------------------------------------------------------------
MaxMetaphor == 2
MaxMetonymy == 1

\* ------------------------------------------------------------------------
\* Program constants
\* ------------------------------------------------------------------------
None == "None"

DEFAULT_WORDNET == "omw-en:1.4"

\* variant: the suffix starts with a dot
DEFAULT_OUTPUT_dot == DEFAULT_WORDNET \o ".cn.xml"

DEFAULT_OUTPUT == DEFAULT_WORDNET \o "_cn.xml"

tropes == <<"metaphor", "metonymy">>

reverses == [rel \in {"metaphor", "metonym"} |->
               IF rel = "metaphor" THEN "has_metaphor" ELSE "has_metonym"]

\* ------------------------------------------------------------------------
\* Input domains
\* ------------------------------------------------------------------------
\* the values --wordnet and --output take on the command line (None: omitted)
WordnetArgs == {None, "oewn:2024"}
OutputArgs == {None, "enhanced.xml"}

\* ChainNet sense keys and the wordnet sense ids they can map to
Keys == {"k1", "k2", "k3"}
SenseId == [k \in Keys |-> CASE k = "k1" -> "s1"
                              [] k = "k2" -> "s2"
                              [] k = "k3" -> "s3"]

\* the sets of ChainNet identifiers that the senses of a lexicon can carry
Lexicons == {{}, {"k1"}, {"k1", "k2"}}

\* the records a category file can hold
Entries ==
  { [wordform |-> "w", from_sense |-> "k1", to_sense |-> "k2"],
    [wordform |-> "w", from_sense |-> "k2", to_sense |-> "k1"],
    [wordform |-> "v", from_sense |-> "k3", to_sense |-> "k1"] }

SeqsUpTo(S, n) == UNION {[1..m -> S] : m \in 0..n}

\* version and label of the installed lexicon, as wordnet.lexicons()[0] gives
LexVersion(spec) == IF spec = DEFAULT_WORDNET THEN "1.4" ELSE "2024"
LexLabel(spec) == IF spec = DEFAULT_WORDNET THEN "OMW English" ELSE "OEWN"

\* the editor before WordnetEditor is constructed
NoEditor == [version |-> None, label |-> None, edges |-> <<>>]

\* ------------------------------------------------------------------------
\* State
\* ------------------------------------------------------------------------
VARIABLES
  pc,               \* position of the script
  exit_status,      \* the status the process ends with
  error,            \* None, or the step whose failure ended the run
  argv,             \* what the command line gave: [wordnet, output]
  args,             \* the parsed arguments: [wordnet, output]
  lexicon_state,    \* "installed", "downloadable" or "unavailable"
  lexicon_initial,  \* lexicon_state when the run started
  files,            \* the content of the two category files, once read
  chainnet_data,    \* the dict of load_chainnet_tropes, in insertion order
  skey,             \* the map of get_map
  relations,        \* the list of extract_relations
  editor,           \* None, or [version, label, edges] of the WordnetEditor
  i,                \* position of the for loop in relations (1-based)
  source_id, target_id,
  added_count, reverse_count, skipped_count, skipped_reverse,
  calls,            \* every add_sense_relation call made, in order
  log,              \* the set-up and export calls made, in order
  exports           \* what editor.export wrote, in order

vars == <<pc, exit_status, error, argv, args, lexicon_state, lexicon_initial,
          files, chainnet_data, skey, relations, editor, i, source_id, target_id,
          added_count, reverse_count, skipped_count, skipped_reverse,
          calls, log, exports>>

counters == <<added_count, reverse_count, skipped_count, skipped_reverse>>
locals == <<i, source_id, target_id>>
setup == <<chainnet_data, skey, relations>>
cli == <<argv, args, lexicon_initial>>
environment == <<lexicon_state, files>>

\* ------------------------------------------------------------------------
\* Pure functions
\* ------------------------------------------------------------------------
\* argparse: an omitted option takes its default
ParseArg(given, default) == IF given = None THEN default ELSE given

ParseArgs(av) == [wordnet |-> ParseArg(av.wordnet, DEFAULT_WORDNET),
                  output  |-> ParseArg(av.output, DEFAULT_OUTPUT)]

\* load_chainnet_tropes: one dict entry per trope, in the order of tropes
RECURSIVE LoadFrom(_, _)
LoadFrom(disk, n) ==
  IF n = 0 THEN <<>>
  ELSE Append(LoadFrom(disk, n - 1), <<tropes[n], disk[tropes[n]]>>)

load_chainnet_tropes(disk) == LoadFrom(disk, Len(tropes))

\* variant: the trope is used as the relation type without renaming
RECURSIVE ExtractContent_unrenamed(_, _, _)
ExtractContent_unrenamed(trope, content, n) ==
  IF n = 0 THEN <<>>
  ELSE LET e == content[n]
       IN Append(ExtractContent_unrenamed(trope, content, n - 1),
                 <<trope, e.wordform, e.from_sense, e.to_sense>>)

\* the inner loop of extract_relations over content['content']
RECURSIVE ExtractContent(_, _, _)
ExtractContent(trope, content, n) ==
  IF n = 0 THEN <<>>
  ELSE LET e == content[n]
           rel == IF trope = "metonymy" THEN "metonym" ELSE "metaphor"
       IN Append(ExtractContent(trope, content, n - 1),
                 <<rel, e.wordform, e.from_sense, e.to_sense>>)

\* the outer loop of extract_relations over the dict, in insertion order
RECURSIVE ExtractFrom(_, _)
ExtractFrom(data, n) ==
  IF n = 0 THEN <<>>
  ELSE ExtractFrom(data, n - 1)
         \o ExtractContent(data[n][1], data[n][2].content,
                           Len(data[n][2].content))

extract_relations(data) == ExtractFrom(data, Len(data))

\* variant: the identifiers are mapped for every lexicon
get_map_any(lex_spec, senses) == [k \in senses |-> SenseId[k]]

\* get_map once wn.Wordnet has opened the lexicon; senses is the set of
\* ChainNet identifiers that the noun senses of the lexicon carry
get_map(lex_spec, senses) ==
  IF lex_spec = "omw-en:1.4"
  THEN [k \in senses |-> SenseId[k]]
  ELSE [k \in {} |-> None]

\* skey.get(key, None)
Get(map, key) == IF key \in DOMAIN map THEN map[key] ELSE None

\* ------------------------------------------------------------------------
\* Initial state: the command line is parsed, nothing else has happened
\* ------------------------------------------------------------------------
Init ==
  /\ pc = "main"
  /\ exit_status = 0
  /\ error = None
  /\ argv \in [wordnet : WordnetArgs, output : OutputArgs]
  /\ args = ParseArgs(argv)
  /\ lexicon_state \in {"installed", "downloadable", "unavailable"}
  /\ lexicon_initial = lexicon_state
  /\ files = [t \in {"metaphor", "metonymy"} |-> [content |-> <<>>]]
  /\ chainnet_data = <<>>
  /\ skey = [k \in {} |-> None]
  /\ relations = <<>>
  /\ editor = NoEditor
  /\ i = 1
  /\ source_id = None
  /\ target_id = None
  /\ added_count = 0
  /\ reverse_count = 0
  /\ skipped_count = 0
  /\ skipped_reverse = 0
  /\ calls = <<>>
  /\ log = <<>>
  /\ exports = <<>>

\* variant: the failure is reported but the run goes on into the loop
Abort_continue(step) ==
  /\ pc' = "loop"
  /\ exit_status' = 1
  /\ error' = step

\* sys.exit(1), or an exception nothing catches
Abort(step) ==
  /\ pc' = "done"
  /\ exit_status' = 1
  /\ error' = step

\* ------------------------------------------------------------------------
\* __main__: the dataset path must exist before enhance_wordnet is called
\* ------------------------------------------------------------------------
Main ==
  /\ pc = "main"
  /\ \E exists \in BOOLEAN :
       IF ~exists
       THEN Abort("chainnet")
       ELSE /\ pc' = "import"
            /\ UNCHANGED <<exit_status, error>>
  /\ UNCHANGED <<cli, environment, setup, editor, locals,
                 counters, calls, log, exports>>

\* ------------------------------------------------------------------------
\* enhance_wordnet: set-up
\* ------------------------------------------------------------------------
\* from wn_edit import WordnetEditor
ImportEditor ==
  /\ pc = "import"
  /\ \E installed \in BOOLEAN :
       IF ~installed
       THEN Abort("wn_edit")
       ELSE /\ pc' = "load"
            /\ UNCHANGED <<exit_status, error>>
  /\ UNCHANGED <<cli, environment, setup, editor, locals,
                 counters, calls, log, exports>>

\* chainnet_data = load_chainnet_tropes(chainnet_path); open or json.load
\* raises when a category file is missing or malformed
LoadChainnet ==
  /\ pc = "load"
  /\ log' = Append(log, "load_chainnet_tropes")
  /\ \/ /\ Abort("load_chainnet_tropes")
        /\ UNCHANGED <<files, chainnet_data>>
     \/ \E mp \in SeqsUpTo(Entries, MaxMetaphor),
           my \in SeqsUpTo(Entries, MaxMetonymy) :
          /\ files' = [t \in {"metaphor", "metonymy"} |->
                         [content |-> IF t = "metaphor" THEN mp ELSE my]]
          /\ chainnet_data' = load_chainnet_tropes(files')
          /\ pc' = "get_map"
          /\ UNCHANGED <<exit_status, error>>
  /\ UNCHANGED <<cli, lexicon_state, skey, relations, editor, locals,
                 counters, calls, exports>>

\* skey = get_map(lexicon_spec); wn.Wordnet raises wn.Error when the lexicon
\* is not installed, and nothing catches it here
GetMap ==
  /\ pc = "get_map"
  /\ log' = Append(log, "get_map")
  /\ IF lexicon_state # "installed"
     THEN /\ Abort("get_map")
          /\ UNCHANGED skey
     ELSE /\ \E senses \in Lexicons :
               skey' = get_map(args.wordnet, senses)
          /\ pc' = "extract"
          /\ UNCHANGED <<exit_status, error>>
  /\ UNCHANGED <<cli, environment, chainnet_data, relations,
                 editor, locals, counters, calls, exports>>

\* relations = extract_relations(chainnet_data)
ExtractRelations ==
  /\ pc = "extract"
  /\ relations' = extract_relations(chainnet_data)
  /\ pc' = "wordnet"
  /\ UNCHANGED <<exit_status, error, cli, environment,
                 chainnet_data, skey, editor, locals, counters, calls, log,
                 exports>>

\* try: wn.Wordnet(...) except wn.Error: wn.download(...); wn.Wordnet(...)
\* get_map has opened the same lexicon already, so the except branch is
\* taken in no run that comes this far
LoadWordnet ==
  /\ pc = "wordnet"
  /\ IF lexicon_state = "installed"
     THEN /\ log' = Append(log, "Wordnet")
          /\ pc' = "editor"
          /\ UNCHANGED <<exit_status, error, lexicon_state>>
     ELSE /\ log' = Append(Append(log, "Wordnet"), "download")
          /\ IF lexicon_state = "downloadable"
             THEN /\ lexicon_state' = "installed"
                  /\ pc' = "editor"
                  /\ UNCHANGED <<exit_status, error>>
             ELSE /\ Abort("download")
                  /\ UNCHANGED lexicon_state
  /\ UNCHANGED <<cli, files, setup, editor, locals, counters, calls,
                 exports>>

\* editor = WordnetEditor(lexicon_spec, version=..., label=...); then the
\* four counters are set to 0
InitEditor ==
  /\ pc = "editor"
  /\ log' = Append(log, "WordnetEditor")
  /\ \/ /\ Abort("WordnetEditor")
        /\ UNCHANGED <<editor, counters>>
     \/ /\ editor' = [version |-> LexVersion(args.wordnet) \o ".cn",
                      label   |-> LexLabel(args.wordnet)
                                    \o " with tropes from ChainNet",
                      edges   |-> <<>>]
        /\ added_count' = 0
        /\ reverse_count' = 0
        /\ skipped_count' = 0
        /\ skipped_reverse' = 0
        /\ pc' = "loop"
        /\ UNCHANGED <<exit_status, error>>
  /\ UNCHANGED <<cli, environment, setup, locals, calls,
                 exports>>

\* ------------------------------------------------------------------------
\* enhance_wordnet: the loop over relations
\* ------------------------------------------------------------------------
\* variant: the tuple is skipped only when both lookups miss
Unresolved_both(s, t) == s = None /\ t = None

\* if source_id is None or target_id is None
Unresolved(s, t) == s = None \/ t = None

\* variant: a call that raises discards the edges added so far
add_sense_relation_rollback(ed, src, dst, label, ok) ==
  IF ok
  THEN [ed EXCEPT !.edges = Append(@, [src |-> src, dst |-> dst,
                                         label |-> label])]
  ELSE [ed EXCEPT !.edges = <<>>]

\* editor.add_sense_relation(src, dst, label, validate=False): the edge is
\* in the edit buffer when the call returns, and not when it raises
add_sense_relation(ed, src, dst, label, ok) ==
  IF ok
  THEN [ed EXCEPT !.edges = Append(@, [src |-> src, dst |-> dst,
                                         label |-> label])]
  ELSE ed

\* the record of one add_sense_relation call
Call(n, dir, src, dst, label, ok) ==
  [tuple |-> n, dir |-> dir, src |-> src, dst |-> dst, label |-> label,
   ok |-> ok]

\* the head of the loop, the two lookups and the skip
NextTuple ==
  /\ pc = "loop"
  /\ i <= Len(relations)
  /\ LET source_key == relations[i][3]
         target_key == relations[i][4]
         s == Get(skey, source_key)
         t == Get(skey, target_key)
     IN /\ source_id' = s
        /\ target_id' = t
        /\ IF Unresolved(s, t)
           THEN /\ skipped_count' = skipped_count + 1
                /\ i' = i + 1
                /\ pc' = "loop"
           ELSE /\ pc' = "forward"
                /\ UNCHANGED <<skipped_count, i>>
  /\ UNCHANGED <<exit_status, error, cli, environment, setup,
                 editor, added_count, reverse_count, skipped_reverse, calls,
                 log, exports>>

\* variant: one try block around both calls, so that a forward call that
\* raises leaves the reverse call out
Forward_one_try ==
  /\ pc = "forward"
  /\ \E ok \in BOOLEAN :
       LET rel_type == relations[i][1]
       IN /\ calls' = Append(calls, Call(i, "forward", source_id, target_id,
                                         rel_type, ok))
          /\ editor' = add_sense_relation(editor, source_id, target_id,
                                          rel_type, ok)
          /\ IF ok
             THEN /\ added_count' = added_count + 1
                  /\ pc' = "reverse"
                  /\ UNCHANGED <<skipped_count, i>>
             ELSE /\ skipped_count' = skipped_count + 1
                  /\ pc' = "loop"
                  /\ i' = i + 1
                  /\ UNCHANGED added_count
  /\ UNCHANGED <<exit_status, error, cli, environment, setup, source_id, target_id,
                 reverse_count, skipped_reverse, log, exports>>

\* variant: a forward call that raises is counted in skipped_reverse
Forward_miscounted ==
  /\ pc = "forward"
  /\ \E ok \in BOOLEAN :
       LET rel_type == relations[i][1]
       IN /\ calls' = Append(calls, Call(i, "forward", source_id, target_id,
                                         rel_type, ok))
          /\ editor' = add_sense_relation(editor, source_id, target_id,
                                          rel_type, ok)
          /\ IF ok
             THEN /\ added_count' = added_count + 1
                  /\ UNCHANGED <<skipped_count, skipped_reverse>>
             ELSE /\ skipped_reverse' = skipped_reverse + 1
                  /\ UNCHANGED <<added_count, skipped_count>>
  /\ pc' = "reverse"
  /\ UNCHANGED <<exit_status, error, cli, environment, setup, locals, reverse_count,
                 log, exports>>

\* the first try block: the forward edge
Forward ==
  /\ pc = "forward"
  /\ \E ok \in BOOLEAN :
       LET rel_type == relations[i][1]
       IN /\ calls' = Append(calls, Call(i, "forward", source_id, target_id,
                                         rel_type, ok))
          /\ editor' = add_sense_relation(editor, source_id, target_id,
                                          rel_type, ok)
          /\ IF ok
             THEN /\ added_count' = added_count + 1
                  /\ UNCHANGED skipped_count
             ELSE /\ skipped_count' = skipped_count + 1
                  /\ UNCHANGED added_count
  /\ pc' = "reverse"
  /\ UNCHANGED <<exit_status, error, cli, environment, setup,
                 locals, reverse_count, skipped_reverse, log, exports>>

\* variant: a reverse call that raises is not counted
Reverse_uncounted ==
  /\ pc = "reverse"
  /\ \E ok \in BOOLEAN :
       LET rel_type == relations[i][1]
       IN /\ calls' = Append(calls, Call(i, "reverse", target_id, source_id,
                                         reverses[rel_type], ok))
          /\ editor' = add_sense_relation(editor, target_id, source_id,
                                          reverses[rel_type], ok)
          /\ IF ok
             THEN /\ reverse_count' = reverse_count + 1
             ELSE /\ UNCHANGED reverse_count
  /\ UNCHANGED skipped_reverse
  /\ i' = i + 1
  /\ pc' = "loop"
  /\ UNCHANGED <<exit_status, error, cli, environment, setup, source_id, target_id,
                 added_count, skipped_count, log, exports>>

\* the second try block: the reverse edge
Reverse ==
  /\ pc = "reverse"
  /\ \E ok \in BOOLEAN :
       LET rel_type == relations[i][1]
       IN /\ calls' = Append(calls, Call(i, "reverse", target_id, source_id,
                                         reverses[rel_type], ok))
          /\ editor' = add_sense_relation(editor, target_id, source_id,
                                          reverses[rel_type], ok)
          /\ IF ok
             THEN /\ reverse_count' = reverse_count + 1
                  /\ UNCHANGED skipped_reverse
             ELSE /\ skipped_reverse' = skipped_reverse + 1
                  /\ UNCHANGED reverse_count
  /\ i' = i + 1
  /\ pc' = "loop"
  /\ UNCHANGED <<exit_status, error, cli, environment, setup,
                 source_id, target_id, added_count, skipped_count, log,
                 exports>>

\* editor.export(output_path), after the last tuple; the script ends with
\* status 0 when it returns and with an uncaught exception when it raises
Export ==
  /\ pc = "loop"
  /\ i > Len(relations)
  /\ log' = Append(log, "export")
  /\ exports' = Append(exports, [path |-> args.output, lexicon |-> editor])
  /\ pc' = "done"
  /\ \E ok \in BOOLEAN :
       /\ exit_status' = IF ok THEN 0 ELSE 1
       /\ error' = IF ok THEN None ELSE "export"
  /\ UNCHANGED <<cli, environment, setup, editor, locals,
                 counters, calls>>

Next ==
  \/ Main
  \/ ImportEditor
  \/ LoadChainnet
  \/ GetMap
  \/ ExtractRelations
  \/ LoadWordnet
  \/ InitEditor
  \/ NextTuple
  \/ Forward
  \/ Reverse
  \/ Export

Spec == Init /\ [][Next]_vars

\* ------------------------------------------------------------------------
\* Vocabulary of the properties
\* ------------------------------------------------------------------------
SetupErrors == {"chainnet", "wn_edit", "load_chainnet_tropes", "get_map",
                "download", "WordnetEditor"}

\* the run came past set-up: the editor exists and the loop has been entered
PastSetup ==
  \/ pc \in {"loop", "forward", "reverse"}
  \/ pc = "done" /\ error \notin SetupErrors

\* extract_relations has returned
Extracted ==
  \/ pc \in {"wordnet", "editor"}
  \/ PastSetup
  \/ pc = "done" /\ error \in {"download", "WordnetEditor"}

Tuples == 1..Len(relations)

\* an endpoint of tuple n has no entry in the map
UnresolvedTuple(n) ==
  \/ relations[n][3] \notin DOMAIN skey
  \/ relations[n][4] \notin DOMAIN skey

\* the add_sense_relation calls made for tuple n, in order
CallsOf(n) == SelectSeq(calls, LAMBDA c : c.tuple = n)

\* the tuples the loop has finished with
Finished == {n \in Tuples : n < i}

Ok(dir) == SelectSeq(calls, LAMBDA c : c.dir = dir /\ c.ok)
Failed(dir) == SelectSeq(calls, LAMBDA c : c.dir = dir /\ ~c.ok)

\* the edges of the calls that returned, in call order
SucceededEdges ==
  LET S == SelectSeq(calls, LAMBDA c : c.ok)
  IN [k \in 1..Len(S) |->
        [src |-> S[k].src, dst |-> S[k].dst, label |-> S[k].label]]

\* ------------------------------------------------------------------------
\* C1.  A tuple with an endpoint that does not resolve gets no
\* add_sense_relation call, forward or reverse: the step of the loop that
\* meets it only adds 1 to skipped_count and moves to the next tuple, and
\* no call for such a tuple is ever in the record of calls.
\* ------------------------------------------------------------------------
Thm_C1 ==
  [][ /\ (pc = "loop" /\ i <= Len(relations) /\ UnresolvedTuple(i))
           => /\ calls' = calls
              /\ editor' = editor
              /\ skipped_count' = skipped_count + 1
              /\ UNCHANGED <<added_count, reverse_count, skipped_reverse>>
              /\ i' = i + 1
              /\ pc' = "loop"
      /\ \A n \in 1..Len(relations') :
           UnresolvedTuple(n)' => Len(CallsOf(n)') = 0 ]_vars

\* a tuple with exactly one unresolved endpoint has been skipped, while
\* another tuple got its calls
Wit_C1 ==
  /\ pc = "loop"
  /\ \E n \in Finished :
       /\ relations[n][3] \notin DOMAIN skey
       /\ relations[n][4] \in DOMAIN skey
       /\ skipped_count >= 1
  /\ Len(calls) >= 2

\* ------------------------------------------------------------------------
\* C2.  A tuple with two resolving endpoints gets exactly one forward call
\* (source -> target, label = category) and then exactly one reverse call
\* (target -> source, label has_metaphor for metaphor and has_metonym for
\* metonym), whether or not the forward call failed; and no failing call
\* ends the loop: export is reached only with every tuple finished.
\* ------------------------------------------------------------------------
InverseLabel(rel) ==
  CASE rel = "metaphor" -> "has_metaphor"
    [] rel = "metonym" -> "has_metonym"
    [] OTHER -> "no inverse"

IsForwardCall(c, n) ==
  /\ c.dir = "forward"
  /\ c.src = skey[relations[n][3]]
  /\ c.dst = skey[relations[n][4]]
  /\ c.label = relations[n][1]

IsReverseCall(c, n) ==
  /\ c.dir = "reverse"
  /\ c.src = skey[relations[n][4]]
  /\ c.dst = skey[relations[n][3]]
  /\ c.label = InverseLabel(relations[n][1])

Thm_C2 ==
  /\ \A n \in Tuples :
       ~UnresolvedTuple(n) =>
         LET cs == CallsOf(n)
         IN /\ n \in Finished
                 => /\ Len(cs) = 2
                    /\ IsForwardCall(cs[1], n)
                    /\ IsReverseCall(cs[2], n)
            /\ (n = i /\ pc = "reverse")
                 => /\ Len(cs) = 1
                    /\ IsForwardCall(cs[1], n)
            /\ (n > i \/ (n = i /\ pc # "reverse")) => Len(cs) = 0
  /\ (pc = "done" /\ PastSetup) => Finished = Tuples
  /\ error \in SetupErrors \cup {None, "export"}

\* the forward call of a tuple failed, its reverse call was made all the
\* same, and the loop went on to a later tuple
Wit_C2 ==
  \E n \in Finished :
    /\ Len(CallsOf(n)) = 2
    /\ ~CallsOf(n)[1].ok
    /\ CallsOf(n)[2].dir = "reverse"
    /\ \E m \in Finished : m > n /\ Len(CallsOf(m)) = 2

\* ------------------------------------------------------------------------
\* C3.  A run that comes past set-up calls export exactly once, after the
\* last tuple, and the exported edit buffer holds exactly the edges of the
\* add_sense_relation calls that returned: at every moment the buffer is
\* the sequence of those edges, so no later miss or failure removes one.
\* ------------------------------------------------------------------------
Thm_C3 ==
  /\ Len(exports) <= 1
  /\ editor.edges = SucceededEdges
  /\ (pc = "done" /\ PastSetup) => Len(exports) = 1
  /\ Len(exports) = 1
       => /\ pc = "done"
          /\ Finished = Tuples
          /\ \A n \in Tuples : UnresolvedTuple(n) \/ Len(CallsOf(n)) = 2
          /\ exports[1].lexicon.edges = SucceededEdges

\* an export after an edge was added, then a call failed and a tuple was
\* skipped
Wit_C3 ==
  /\ Len(exports) = 1
  /\ Len(exports[1].lexicon.edges) >= 1
  /\ \E a, b \in 1..Len(calls) : a < b /\ calls[a].ok /\ ~calls[b].ok
  /\ \E n \in Tuples : UnresolvedTuple(n)

\* ------------------------------------------------------------------------
\* C4.  When a set-up step fails (dataset path missing, wn_edit missing, a
\* category file missing or malformed, the lexicon not to be had, the map
\* or the editor not built) the run is over at once with a non-zero status:
\* no add_sense_relation call and no export has been or will be made.
\* ------------------------------------------------------------------------
Thm_C4 ==
  [][ /\ error' \in SetupErrors
           => /\ pc' = "done"
              /\ exit_status' # 0
              /\ calls' = <<>>
              /\ exports' = <<>>
              /\ editor'.edges = <<>>
      /\ error \notin SetupErrors ]_vars

\* the map could not be built after the category files had been read
Wit_C4 ==
  /\ error = "get_map"
  /\ pc = "done"
  /\ Len(files["metaphor"].content) >= 1

\* ------------------------------------------------------------------------
\* C5.  Set-up runs in the order: load the lexicon (with a download when
\* it is not installed), build the map, load the tuples, build the editor;
\* so a lexicon that is absent but can be downloaded is downloaded before
\* the map is built, and the run ends with an export, not with an abort.
\* The script does not do this: get_map opens the lexicon first, outside
\* the try block that would download it.
\* ------------------------------------------------------------------------
\* position of the first occurrence of step in the log, 0 when there is none
IndexOf(step) ==
  IF \E k \in 1..Len(log) : log[k] = step
  THEN CHOOSE k \in 1..Len(log) :
         log[k] = step /\ \A j \in 1..(k - 1) : log[j] # step
  ELSE 0

Cex_C5 ==
  /\ IndexOf("get_map") > 0
       => /\ IndexOf("Wordnet") > 0
          /\ IndexOf("Wordnet") < IndexOf("get_map")
          /\ lexicon_initial # "installed"
               => /\ IndexOf("download") > 0
                  /\ IndexOf("download") < IndexOf("get_map")
  /\ (lexicon_initial = "downloadable" /\ pc = "done"
        /\ error \notin {"chainnet", "wn_edit", "load_chainnet_tropes",
                         "WordnetEditor", "export"})
       => /\ error = None
          /\ Len(exports) = 1

\* ------------------------------------------------------------------------
\* C6.  As claimed: a forward call that raises is counted apart from the
\* lookup misses, so that at the end skipped_count is the number of tuples
\* dropped for an unresolved endpoint, added_count the number of forward
\* calls that returned and reverse_count the number of reverse calls that
\* returned.
\* ------------------------------------------------------------------------
Misses == Cardinality({n \in Finished : UnresolvedTuple(n)})

Cex_C6 ==
  Len(exports) = 1
    => /\ skipped_count = Misses
       /\ added_count = Len(Ok("forward"))
       /\ reverse_count = Len(Ok("reverse"))
       /\ skipped_reverse = Len(Failed("reverse"))

\* C6, as the script has it.  A forward call that raises adds 1 to
\* skipped_count, the counter of the lookup misses, and a reverse call that
\* raises adds 1 to skipped_reverse only: whenever the loop is between two
\* tuples, and at export, skipped_count is the misses plus the failed
\* forward calls, added_count the forward calls that returned,
\* reverse_count the reverse calls that returned and skipped_reverse the
\* failed reverse calls.  With 2 metaphor entries and 1 metonymy entry, one
\* metaphor from_sense unresolvable and no call failing, the counts are
\* added 2, reverse added 2, skipped 1.
Thm_C6 ==
  /\ (pc = "loop" \/ Len(exports) = 1)
       => /\ skipped_count = Misses + Len(Failed("forward"))
          /\ added_count = Len(Ok("forward"))
          /\ reverse_count = Len(Ok("reverse"))
          /\ skipped_reverse = Len(Failed("reverse"))
  /\ ( /\ Len(exports) = 1
       /\ Len(files["metaphor"].content) = 2
       /\ Len(files["metonymy"].content) = 1
       /\ \E n \in {1, 2} :
            /\ files["metaphor"].content[n].from_sense \notin DOMAIN skey
            /\ \A m \in Tuples \ {n} : ~UnresolvedTuple(m)
       /\ \A k \in 1..Len(calls) : calls[k].ok )
       => /\ added_count = 2
          /\ reverse_count = 2
          /\ skipped_count = 1
          /\ skipped_reverse = 0

\* at export: a miss, a failed forward call and a failed reverse call
Wit_C6 ==
  /\ Len(exports) = 1
  /\ Misses >= 1
  /\ Len(Failed("forward")) >= 1
  /\ Len(Failed("reverse")) >= 1
  /\ skipped_count >= 2

\* ------------------------------------------------------------------------
\* C7.  As claimed: the skip counters never decrease, and at the end their
\* sum is the number of tuples for which at least one of the two edges was
\* not added.
\* ------------------------------------------------------------------------
\* tuples with an edge missing: skipped, or with a call that raised
NotFullyProcessed ==
  Cardinality({n \in Finished :
     \/ UnresolvedTuple(n)
     \/ \E k \in 1..Len(calls) : calls[k].tuple = n /\ ~calls[k].ok})

\* tuples whose forward call and reverse call both raised
BothFailed ==
  Cardinality({n \in Finished :
     /\ Len(CallsOf(n)) = 2
     /\ ~CallsOf(n)[1].ok
     /\ ~CallsOf(n)[2].ok})

Cex_C7 ==
  [][ /\ skipped_count' >= skipped_count
      /\ skipped_reverse' >= skipped_reverse
      /\ Len(exports') = 1
           => skipped_count' + skipped_reverse' = NotFullyProcessed' ]_vars

\* C7, as the script has it.  The skip counters never decrease, and at the
\* end their sum is the number of tuples with an edge missing plus the
\* number of tuples whose forward and reverse calls both failed (such a
\* tuple is counted once in each counter).
Thm_C7 ==
  [][ /\ skipped_count' >= skipped_count
      /\ skipped_reverse' >= skipped_reverse
      /\ Len(exports') = 1
           => skipped_count' + skipped_reverse'
                = NotFullyProcessed' + BothFailed' ]_vars

\* at export: one tuple lost both edges, another was skipped
Wit_C7 ==
  /\ Len(exports) = 1
  /\ BothFailed >= 1
  /\ Misses >= 1
  /\ skipped_reverse >= 1

\* ------------------------------------------------------------------------
\* C8.  load_chainnet_tropes followed by extract_relations gives one tuple
\* (category, wordform, from_sense, to_sense) per record of the category
\* files: the metaphor records in file order, then the metonymy records in
\* file order, 'metaphor' kept and 'metonymy' turned into 'metonym'.
\* ------------------------------------------------------------------------
Thm_C8 ==
  Extracted =>
    LET mp == files["metaphor"].content
        my == files["metonymy"].content
    IN /\ Len(relations) = Len(mp) + Len(my)
       /\ \A k \in 1..Len(mp) :
            relations[k] = <<"metaphor", mp[k].wordform, mp[k].from_sense,
                             mp[k].to_sense>>
       /\ \A k \in 1..Len(my) :
            relations[Len(mp) + k] = <<"metonym", my[k].wordform,
                                       my[k].from_sense, my[k].to_sense>>

\* two different metaphor records and a metonymy record have been extracted
Wit_C8 ==
  /\ Extracted
  /\ Len(relations) = 3
  /\ Len(files["metaphor"].content) = 2
  /\ files["metaphor"].content[1] # files["metaphor"].content[2]
  /\ relations[3][1] = "metonym"

\* ------------------------------------------------------------------------
\* C9.  As claimed: with --output omitted, the file exported to is named
\* by the lexicon specifier in effect followed by '.cn.xml'.
\* ------------------------------------------------------------------------
Cex_C9 ==
  (argv.output = None /\ Len(exports) = 1)
    => exports[1].path = args.wordnet \o ".cn.xml"

\* C9, as the script has it.  With --output omitted, the file exported to
\* is 'omw-en:1.4_cn.xml': the default specifier followed by '_cn.xml',
\* whatever --wordnet is.
Thm_C9 ==
  /\ argv.output = None => args.output = "omw-en:1.4_cn.xml"
  /\ (argv.output = None /\ Len(exports) = 1)
       => exports[1].path = "omw-en:1.4_cn.xml"
  /\ (argv.output # None /\ Len(exports) = 1)
       => exports[1].path = argv.output

\* an export with --output omitted and --wordnet given
Wit_C9 ==
  /\ Len(exports) = 1
  /\ argv.output = None
  /\ argv.wordnet = "oewn:2024"
  /\ args.wordnet = "oewn:2024"

====
